---- MODULE Spec2Model ----
(***************************************************************************)
(* Order lifecycle and incentive ledger of the White Agency backend        *)
(* (src/server/index.js): users, orders, invoices, payment confirmation,   *)
(* cashback, level promotion, referral commission, promo codes and         *)
(* withdrawals.                                                            *)
(*                                                                         *)
(* Conventions of the model                                                *)
(*  - Money is counted in cents (1/100 of a currency unit), so that 5% and *)
(*    25% of a whole amount are integers: $150 is 15000, the $100 level    *)
(*    threshold is 10000.                                                  *)
(*  - Every handler is synchronous (better-sqlite3 calls, no await between *)
(*    its statements), so one handler is one atomic action.                *)
(*  - A row id of the users table is identified with the index of its      *)
(*    telegram id; the referral code of user u is written u, and code 0 is *)
(*    a code that no user owns.                                            *)
(*  - 0 stands for SQL NULL in id, hash and timestamp columns.             *)
(*  - better-sqlite3 enforces foreign keys (its bundled SQLite is built    *)
(*    with SQLITE_DEFAULT_FOREIGN_KEYS=1): an INSERT that names a missing  *)
(*    parent row throws and the handler answers 500.                       *)
(*  - The response of a handler is a function of the state it runs in and  *)
(*    of its input (the ...Result operators); `last` keeps the response of *)
(*    the last request in the specifications whose properties use it.      *)
(*  - The notifications table is append-only and never read back by a      *)
(*    handler: the model keeps the set of its distinct rows.               *)
(***************************************************************************)
EXTENDS Integers, Sequences, FiniteSets, TLC

VARIABLES
    users,             \* users table: telegram id -> row
    orders,            \* orders table: order id -> row
    invoices,          \* invoices table: sequence of rows, id = position
    cashbackHistory,   \* cashback_history: user id -> sequence of amounts
    referrals,         \* referrals table: sequence of rows, id = position
    pendingReferrals,  \* pending_referrals table: sequence of rows
    notifications,     \* distinct rows of the notifications table
    clock,             \* CURRENT_TIMESTAMP, a logical time >= 1
    promoCodes,        \* promo_codes table: code -> row
    promoUses,         \* promo_uses table: sequence of rows
    withdrawals,       \* withdrawals table: sequence of rows, id = position
    commissionsPaid,   \* history: referred user -> commissions paid for it
    verified,          \* history: requests the Payment Verifier accepted
    last               \* response of the last request

vars == <<users, orders, invoices, cashbackHistory, referrals,
          pendingReferrals, notifications, clock, promoCodes, promoUses,
          withdrawals, commissionsPaid, verified, last>>

\* What the handlers of users, orders and invoices never write.
promoVars == <<promoCodes, promoUses>>
histVars == <<commissionsPaid, verified>>

----------------------------------------------------------------------------
(* The universe and the bounds of the model *)

\* Telegram ids of the callers, and the ids a client gives its orders.
TelegramIds == {1, 2}
OrderIds == {1, 2}
\* Referral codes a caller may present: those of the users, and 0.
RefCodes == {0} \cup TelegramIds

\* Rows of cashback_history, pending_referrals: the handlers that append to
\* them are not taken beyond these.
MaxHistory == 3
MaxPending == 1
MaxWithdrawals == 1
MaxBalance == 1000
MaxPromoUses == 2
MaxClock == 3

----------------------------------------------------------------------------
(* Rows *)

NoUser ==
    [exists |-> FALSE, level |-> "none", totalSpent |-> 0, cashback |-> 0,
     referredBy |-> 0, referralEarnings |-> 0, wallet |-> FALSE]

NewUser ==
    [NoUser EXCEPT !.exists = TRUE]

\* Promo codes, upper-cased (code.toUpperCase()).
PromoNames == {"SAVE10", "VIP"}

NoPromo ==
    [exists |-> FALSE, discountPercent |-> 0, maxUses |-> 0,
     currentUses |-> 0, expiresAt |-> 0, isActive |-> FALSE]

NoOrder ==
    [exists |-> FALSE, userId |-> 0, basePrice |-> 0, subtotal |-> 0,
     discountAmount |-> 0, total |-> 0, cashbackUsed |-> 0,
     status |-> "none", txHash |-> 0, reviewed |-> FALSE]

RECURSIVE SumOver(_, _)
SumOver(f, S) ==
    IF S = {} THEN 0
    ELSE LET x == CHOOSE y \in S : TRUE
         IN f[x] + SumOver(f, S \ {x})

RECURSIVE SumSeq(_)
SumSeq(s) ==
    IF s = <<>> THEN 0 ELSE Head(s) + SumSeq(Tail(s))

\* Number of rows of the cashback_history table.
HistoryLen ==
    SumOver([t \in TelegramIds |-> Len(cashbackHistory[t])], TelegramIds)

Init ==
    /\ users = [t \in TelegramIds |-> NoUser]
    /\ orders = [o \in OrderIds |-> NoOrder]
    /\ invoices = <<>>
    /\ cashbackHistory = [t \in TelegramIds |-> <<>>]
    /\ referrals = <<>>
    /\ pendingReferrals = <<>>
    /\ notifications = {}
    /\ clock = 1
    /\ promoCodes = [c \in PromoNames |-> NoPromo]
    /\ promoUses = <<>>
    /\ withdrawals = <<>>
    /\ commissionsPaid = [t \in TelegramIds |-> 0]
    /\ verified = {}
    /\ last = [op |-> "init", status |-> "none"]

----------------------------------------------------------------------------
(* Users and referral linking *)

\* The response of the request that was just served.
Answer(op, status) ==
    last' = [op |-> op, status |-> status]

\* A step of a specification that does not follow the responses.
Silent ==
    UNCHANGED last

\* What becomes of a push notification (bot.telegram.sendMessage).
PushOutcomes ==
    {"sent", "failed"}

\* A variant in which a failed send fails the request.
AfterSendThrowing(outcome, result) ==
    IF outcome = "failed" THEN "500" ELSE result

\* notifyAdmin, notifyOrderStatus and the sends of the handlers: the promise
\* of the send is not awaited by the handler and its rejection is logged, so
\* the response is the one the handler gives.
AfterSend(outcome, result) ==
    result

\* The response of a request that sends a push notification, kept with what
\* became of the send.
AnswerSend(op, result, outcome) ==
    last' = [op |-> op, status |-> AfterSend(outcome, result),
             outcome |-> outcome]

Notify(userId, title, ref) ==
    notifications' = notifications \cup {<<userId, title, ref>>}

\* SELECT * FROM users WHERE referral_code = ?  (0: no such user)
UserByCode(us, code) ==
    IF code \in TelegramIds /\ us[code].exists THEN code ELSE 0

\* Positions of the pending_referrals rows of one telegram id.
PendingOf(t) ==
    {k \in 1..Len(pendingReferrals) : pendingReferrals[k].telegramId = t}

\* A variant that deletes nothing.
KeepPending(t) ==
    pendingReferrals

\* DELETE FROM pending_referrals WHERE telegram_id = ?
DeletePending(t) ==
    SelectSeq(pendingReferrals, LAMBDA r : r.telegramId # t)

\* GET /api/user: get or create the caller's user row; a new row resolves the
\* pending referral stored for its telegram id.
GetUser(t) ==
    /\ IF users[t].exists
       THEN UNCHANGED <<users, referrals, pendingReferrals>>
       ELSE LET created == [users EXCEPT ![t] = NewUser]
                pend == PendingOf(t)
            IN IF pend = {}
               THEN /\ users' = created
                    /\ UNCHANGED <<referrals, pendingReferrals>>
               ELSE LET row == pendingReferrals[CHOOSE k \in pend :
                                                   \A j \in pend : k <= j]
                        referrer == UserByCode(created, row.code)
                    IN /\ IF referrer # 0 /\ referrer # t
                          THEN /\ users' = [created EXCEPT
                                                ![t].referredBy = referrer]
                               /\ referrals' = Append(referrals,
                                      [referrerId |-> referrer,
                                       referredId |-> t, earnings |-> 0])
                          ELSE /\ users' = created
                               /\ UNCHANGED referrals
                       /\ pendingReferrals' = DeletePending(t)
    /\ UNCHANGED <<orders, invoices, cashbackHistory, notifications, clock,
                   promoVars, withdrawals, histVars>>

\* POST /api/user: update the caller's profile (name, payout wallet).
UpdateUser(t, wallet) ==
    /\ users' = IF users[t].exists
                THEN [users EXCEPT ![t].wallet = wallet]
                ELSE users
    /\ UNCHANGED <<orders, invoices, cashbackHistory, referrals,
                   pendingReferrals, notifications, clock, promoVars, withdrawals, histVars>>

\* bot.command('start') with a referral code: kept as a pending referral while
\* the telegram id has no user row.
BotStart(t, code) ==
    /\ Len(pendingReferrals) < MaxPending
    /\ IF users[t].exists
       THEN UNCHANGED <<pendingReferrals, notifications>>
       ELSE /\ pendingReferrals' = Append(pendingReferrals,
                                       [telegramId |-> t, code |-> code])
            /\ IF UserByCode(users, code) # 0
               THEN Notify(UserByCode(users, code), "newReferral", t)
               ELSE UNCHANGED notifications
    /\ UNCHANGED <<users, orders, invoices, cashbackHistory, referrals,
                   clock, promoVars, withdrawals, histVars>>

\* A variant without the self-referral check.
ApplyReferralResultSelf(t, code) ==
    IF UserByCode(users, code) = 0 THEN "400 Invalid code"
    ELSE IF ~users[t].exists THEN "404 User not found"
    ELSE IF users[t].referredBy # 0 THEN "400 Already referred"
    ELSE "200"

\* A variant without the already-referred check.
ApplyReferralResultAgain(t, code) ==
    IF UserByCode(users, code) = 0 THEN "400 Invalid code"
    ELSE IF ~users[t].exists THEN "404 User not found"
    ELSE IF UserByCode(users, code) = t THEN "400 Cannot refer yourself"
    ELSE "200"

\* POST /api/referral/apply: the response.
ApplyReferralResult(t, code) ==
    IF UserByCode(users, code) = 0 THEN "400 Invalid code"
    ELSE IF ~users[t].exists THEN "404 User not found"
    ELSE IF users[t].referredBy # 0 THEN "400 Already referred"
    ELSE IF UserByCode(users, code) = t THEN "400 Cannot refer yourself"
    ELSE "200"

\* POST /api/referral/apply
ApplyReferral(t, code) ==
    /\ IF ApplyReferralResult(t, code) = "200"
       THEN /\ users' = [users EXCEPT
                            ![t].referredBy = UserByCode(users, code)]
            /\ referrals' = Append(referrals,
                   [referrerId |-> UserByCode(users, code),
                    referredId |-> t, earnings |-> 0])
       ELSE UNCHANGED <<users, referrals>>
    /\ UNCHANGED <<orders, invoices, cashbackHistory, pendingReferrals,
                   notifications, clock, promoVars, withdrawals, histVars>>

----------------------------------------------------------------------------
(* Reward engine *)

\* updateUserLevel, lines 939-945: the level of an amount spent.
LevelOf(spent) ==
    IF spent >= 1000000 THEN "platinum"
    ELSE IF spent >= 100000 THEN "gold"
    ELSE IF spent >= 50000 THEN "silver"
    ELSE IF spent >= 10000 THEN "bronze"
    ELSE "none"

\* The order of the tiers: none < bronze < silver < gold < platinum.
LevelRank(level) ==
    CASE level = "none" -> 0
      [] level = "bronze" -> 1
      [] level = "silver" -> 2
      [] level = "gold" -> 3
      [] level = "platinum" -> 4

\* updateUserLevel: the users table after the level of user u was evaluated.
UpdateUserLevel(us, u) ==
    IF ~us[u].exists THEN us
    ELSE LET newLevel == LevelOf(us[u].totalSpent)
         IN IF newLevel # us[u].level /\ newLevel # "none"
            THEN [us EXCEPT ![u].level = newLevel]
            ELSE us

\* Whether updateUserLevel writes a level (and so a notification) for user u.
LevelChanges(us, u) ==
    /\ us[u].exists
    /\ LevelOf(us[u].totalSpent) # us[u].level
    /\ LevelOf(us[u].totalSpent) # "none"

\* A variant that accrues 10%.
CashbackTenth(amount) ==
    (amount * 10) \div 100

\* invoice.amount * 0.05
CashbackAmount(amount) ==
    (amount * 5) \div 100

\* SELECT COUNT(*) FROM orders WHERE user_id = ?
OrdersOf(u) ==
    {o \in OrderIds : orders[o].exists /\ orders[o].userId = u}

\* A variant that takes the commission of the discounted total.
BaseAmountOfTotal(order) ==
    order.total

\* firstOrder.subtotal || firstOrder.base_price || firstOrder.total
BaseAmount(order) ==
    IF order.subtotal # 0 THEN order.subtotal
    ELSE IF order.basePrice # 0 THEN order.basePrice
    ELSE order.total

\* baseAmount * 0.25
ReferralAmount(order) ==
    (BaseAmount(order) * 25) \div 100

\* processReferralPayment, lines 980-988: the guard under which a commission
\* is paid for user u.
ReferralDue(us, u) ==
    /\ us[u].exists
    /\ us[u].referredBy # 0
    /\ Cardinality(OrdersOf(u)) = 1

\* The user's only order (ORDER BY created_at LIMIT 1 of a single row).
FirstOrder(u) ==
    orders[CHOOSE o \in OrdersOf(u) : TRUE]

\* processReferralPayment, lines 995-998: the users table after the referrer
\* of user u was credited.
PayReferrer(us, u) ==
    IF ReferralDue(us, u)
    THEN [us EXCEPT ![us[u].referredBy].referralEarnings =
                        @ + ReferralAmount(FirstOrder(u))]
    ELSE us

\* processReferralPayment, lines 1000-1003: the referrals table after the
\* commission of user u was written to the rows of its pair.
PayReferralRows(us, u) ==
    IF ReferralDue(us, u)
    THEN [k \in 1..Len(referrals) |->
            IF /\ referrals[k].referrerId = us[u].referredBy
               /\ referrals[k].referredId = u
            THEN [referrals[k] EXCEPT
                     !.earnings = ReferralAmount(FirstOrder(u))]
            ELSE referrals[k]]
    ELSE referrals

----------------------------------------------------------------------------
(* Orders *)

\* A variant whose INSERT replaces an order that has the id.
CreateOrderResultReplacing(t, id) ==
    IF ~users[t].exists THEN "404 User not found"
    ELSE "200"

\* POST /api/orders and /api/cart-orders: the response.
CreateOrderResult(t, id) ==
    IF ~users[t].exists THEN "404 User not found"
    ELSE IF orders[id].exists THEN "500"  \* PRIMARY KEY: the INSERT throws
    ELSE "200"

\* A variant that stops the debit at an empty balance.
SpendCashbackClamped(us, t, cashbackUsed) ==
    [us EXCEPT ![t].cashback =
        IF @ - cashbackUsed < 0 THEN 0 ELSE @ - cashbackUsed]

\* UPDATE users SET cashback = cashback - ? WHERE id = ?
SpendCashback(us, t, cashbackUsed) ==
    [us EXCEPT ![t].cashback = @ - cashbackUsed]

\* POST /api/orders: a legacy single-service order.  cashbackUsed is
\* order.cashbackUsed, discountAmount is promoDiscount + referralDiscount.
CreateOrder(t, id, basePrice, discountAmount, total, cashbackUsed) ==
    /\ IF CreateOrderResult(t, id) = "200"
       THEN /\ orders' = [orders EXCEPT ![id] =
                   [exists |-> TRUE, userId |-> t, basePrice |-> basePrice,
                    subtotal |-> basePrice,
                    discountAmount |-> discountAmount,
                    total |-> total, cashbackUsed |-> cashbackUsed,
                    status |-> "pending", txHash |-> 0, reviewed |-> FALSE]]
            /\ IF cashbackUsed > 0
               THEN /\ users' = SpendCashback(users, t, cashbackUsed)
                    /\ cashbackHistory' = [cashbackHistory EXCEPT
                           ![t] = Append(@, -cashbackUsed)]
               ELSE UNCHANGED <<users, cashbackHistory>>
            /\ Notify(t, "orderCreated", id)
       ELSE UNCHANGED <<users, orders, cashbackHistory, notifications>>
    /\ UNCHANGED <<invoices, referrals, pendingReferrals, clock, promoVars,
                   withdrawals, histVars>>

\* A variant that credits the 5% cashback and the amount spent when the
\* order is created.
CreateCartOrderRewarding(t, id, subtotal, discountAmount, total) ==
    /\ IF CreateOrderResult(t, id) = "200"
       THEN /\ orders' = [orders EXCEPT ![id] =
                   [exists |-> TRUE, userId |-> t, basePrice |-> 0,
                    subtotal |-> IF subtotal # 0 THEN subtotal ELSE total,
                    discountAmount |-> discountAmount,
                    total |-> total, cashbackUsed |-> 0,
                    status |-> "awaiting_manager", txHash |-> 0,
                    reviewed |-> FALSE]]
            /\ users' = [users EXCEPT
                            ![t].cashback = @ + CashbackAmount(total),
                            ![t].totalSpent = @ + total]
            /\ Notify(t, "orderSent", id)
       ELSE UNCHANGED <<users, orders, notifications>>
    /\ UNCHANGED <<invoices, cashbackHistory, referrals,
                   pendingReferrals, clock, promoVars, withdrawals, histVars>>

\* POST /api/cart-orders: a cart order.  subtotal and discountAmount are the
\* request's fields, 0 when the request leaves them out.
CreateCartOrder(t, id, subtotal, discountAmount, total) ==
    /\ IF CreateOrderResult(t, id) = "200"
       THEN /\ orders' = [orders EXCEPT ![id] =
                   [exists |-> TRUE, userId |-> t, basePrice |-> 0,
                    subtotal |-> IF subtotal # 0 THEN subtotal ELSE total,
                    discountAmount |-> discountAmount,
                    total |-> total, cashbackUsed |-> 0,
                    status |-> "awaiting_manager", txHash |-> 0,
                    reviewed |-> FALSE]]
            /\ Notify(t, "orderSent", id)
       ELSE UNCHANGED <<orders, notifications>>
    /\ UNCHANGED <<users, invoices, cashbackHistory, referrals,
                   pendingReferrals, clock, promoVars, withdrawals, histVars>>

\* notifyOrderStatus: the title of the notification row of a status.
StatusTitle(status) ==
    IF status \in {"pending", "working", "completed", "cancelled"}
    THEN status ELSE "updated"

\* A variant that does not look the order up.
UpdateOrderStatusResultAny(orderId) ==
    "200"

\* POST /api/admin/orders/:orderId/status: the response.
UpdateOrderStatusResult(orderId) ==
    IF orderId \in OrderIds /\ orders[orderId].exists
    THEN "200" ELSE "404 Order not found"

\* POST /api/admin/orders/:orderId/status (and the older
\* POST /api/orders/:orderId/status with the admin key): the status of the
\* request is stored as it is, whatever the status of the order.
UpdateOrderStatus(orderId, status) ==
    /\ IF UpdateOrderStatusResult(orderId) = "200"
       THEN /\ orders' = [orders EXCEPT ![orderId].status = status]
            /\ Notify(orders[orderId].userId, StatusTitle(status), orderId)
       ELSE UNCHANGED <<orders, notifications>>
    /\ UNCHANGED <<users, invoices, cashbackHistory, referrals,
                   pendingReferrals, clock, promoVars, withdrawals, histVars>>

----------------------------------------------------------------------------
(* Invoices and payment confirmation *)

\* process.env.PAYMENT_ADDRESS
PaymentAddress ==
    "TAXtuQ"

\* A variant without UNIQUE(order_id).
InvoiceInsertableTwice(orderId, userId) ==
    /\ orderId \in OrderIds /\ orders[orderId].exists
    /\ userId = 0 \/ (userId \in TelegramIds /\ users[userId].exists)

\* UNIQUE(order_id) and the foreign keys of the invoices table; a user_id
\* the request leaves out (0) is stored as NULL, which a foreign key accepts.
InvoiceInsertable(orderId, userId) ==
    /\ orderId \in OrderIds /\ orders[orderId].exists
    /\ userId = 0 \/ (userId \in TelegramIds /\ users[userId].exists)
    /\ \A k \in 1..Len(invoices) : invoices[k].orderId # orderId

\* POST /api/admin/invoices: the rows are written when the INSERT goes
\* through; the user is looked up after that.
IssueInvoiceWrites(orderId, userId) ==
    InvoiceInsertable(orderId, userId)

\* POST /api/admin/invoices: the response.
IssueInvoiceResult(orderId, userId) ==
    IF ~InvoiceInsertable(orderId, userId) THEN "500"
    ELSE IF userId = 0 THEN "404 User not found"
    ELSE "200"

\* POST /api/admin/invoices
IssueInvoice(orderId, userId, amount, discountAmount) ==
    /\ IF IssueInvoiceWrites(orderId, userId)
       THEN /\ invoices' = Append(invoices,
                   [orderId |-> orderId, userId |-> userId,
                    amount |-> amount, discountAmount |-> discountAmount,
                    finalAmount |-> amount - discountAmount,
                    paymentAddress |-> PaymentAddress, txHash |-> 0,
                    status |-> "awaiting_payment", paidAt |-> 0])
            /\ orders' = [orders EXCEPT
                             ![orderId].status = "awaiting_payment"]
            /\ IF userId # 0
               THEN Notify(userId, "invoiceIssued", Len(invoices) + 1)
               ELSE UNCHANGED notifications
       ELSE UNCHANGED <<orders, invoices, notifications>>
    /\ UNCHANGED <<users, cashbackHistory, referrals, pendingReferrals,
                   clock, promoVars, withdrawals, histVars>>

\* POST /api/invoices/:id/confirm: the response.
ConfirmPaymentResult(id) ==
    IF id \in 1..Len(invoices) THEN "200" ELSE "404 Invoice not found"

\* POST /api/invoices/:id/confirm
ConfirmPayment(id) ==
    /\ IF ConfirmPaymentResult(id) = "200" /\ invoices[id].userId = 0
       THEN \* an invoice without a user: no users row is updated, and the
            \* history and notification rows carry no user
            /\ invoices' = [invoices EXCEPT ![id].status = "paid",
                                             ![id].paidAt = clock]
            /\ orders' = [orders EXCEPT
                   ![invoices[id].orderId].status = "working",
                   ![invoices[id].orderId].txHash = invoices[id].txHash]
            /\ notifications' = notifications
                   \cup {<<0, "paymentConfirmed", id>>}
            /\ UNCHANGED <<users, cashbackHistory, referrals,
                           commissionsPaid>>
       ELSE IF ConfirmPaymentResult(id) = "200"
       THEN LET invoice == invoices[id]
                u == invoice.userId
                cashbackAmount == CashbackAmount(invoice.amount)
                credited == [users EXCEPT
                                ![u].cashback = @ + cashbackAmount,
                                ![u].totalSpent = @ + invoice.amount]
                levelled == UpdateUserLevel(credited, u)
            IN /\ HistoryLen < MaxHistory
               /\ invoices' = [invoices EXCEPT ![id].status = "paid",
                                                ![id].paidAt = clock]
               /\ orders' = [orders EXCEPT
                      ![invoice.orderId].status = "working",
                      ![invoice.orderId].txHash = invoice.txHash]
               /\ cashbackHistory' = [cashbackHistory EXCEPT
                      ![u] = Append(@, cashbackAmount)]
               /\ users' = PayReferrer(levelled, u)
               /\ referrals' = PayReferralRows(levelled, u)
               /\ commissionsPaid' =
                      IF ReferralDue(levelled, u)
                      THEN [commissionsPaid EXCEPT ![u] = @ + 1]
                      ELSE commissionsPaid
               /\ notifications' = notifications
                      \cup {<<u, "paymentConfirmed", id>>}
                      \cup (IF LevelChanges(credited, u)
                            THEN {<<u, "newLevel",
                                    LevelRank(LevelOf(credited[u].totalSpent))>>}
                            ELSE {})
                      \cup (IF ReferralDue(levelled, u)
                            THEN {<<levelled[u].referredBy,
                                    "referralBonus", u>>}
                            ELSE {})
       ELSE UNCHANGED <<users, orders, invoices, cashbackHistory, referrals,
                        notifications, commissionsPaid>>
    /\ UNCHANGED <<pendingReferrals, clock, promoVars, withdrawals,
                   verified>>

----------------------------------------------------------------------------
(* Transaction hashes and the TronScan verifier *)

\* Transaction hashes a client may submit; 0 is a request without one.
TxHashes ==
    0..9

\* Answers of the TronScan API, by hash: ok is response.ok, found is
\* txData.code # 'NOT_FOUND', amount is the transfer amount the handler
\* extracts (0: none in the payload) and to the recipient it extracts
\* ("": none).
Ledger(h) ==
    CASE h = 1 -> [ok |-> TRUE, found |-> TRUE, confirmed |-> TRUE,
                   amount |-> 15000, to |-> "TAXtuQ"]
      [] h = 2 -> [ok |-> TRUE, found |-> TRUE, confirmed |-> TRUE,
                   amount |-> 14700, to |-> "taxtuq"]
      [] h = 3 -> [ok |-> TRUE, found |-> TRUE, confirmed |-> FALSE,
                   amount |-> 15000, to |-> "TAXtuQ"]
      [] h = 4 -> [ok |-> TRUE, found |-> TRUE, confirmed |-> TRUE,
                   amount |-> 0, to |-> ""]
      [] h = 5 -> [ok |-> TRUE, found |-> TRUE, confirmed |-> TRUE,
                   amount |-> 15000, to |-> "TOther"]
      [] h = 6 -> [ok |-> TRUE, found |-> FALSE, confirmed |-> FALSE,
                   amount |-> 0, to |-> ""]
      [] h = 7 -> [ok |-> TRUE, found |-> TRUE, confirmed |-> TRUE,
                   amount |-> 0, to |-> "TAXtuQ"]
      [] h = 8 -> [ok |-> TRUE, found |-> TRUE, confirmed |-> TRUE,
                   amount |-> 14900, to |-> "TAXtuQ"]
      [] OTHER -> [ok |-> FALSE, found |-> FALSE, confirmed |-> FALSE,
                   amount |-> 0, to |-> ""]

\* String.prototype.toLowerCase on the addresses in play.
ToLowerCase(a) ==
    CASE a = "TAXtuQ" -> "taxtuq"
      [] a = "TOther" -> "tother"
      [] OTHER -> a

Abs(x) ==
    IF x < 0 THEN -x ELSE x

\* A variant that does not wait for the transaction to be confirmed.
VerifyTronscanUnconfirmed(txHash, expectedAmount, recipientAddress) ==
    LET txData == Ledger(txHash)
    IN IF txHash = 0 THEN "400 Transaction hash required"
       ELSE IF recipientAddress = "" THEN "400 Recipient address required"
       ELSE IF ~txData.ok THEN "400 Transaction not found on TronScan"
       ELSE IF ~txData.found THEN "false not found"
       ELSE IF /\ expectedAmount # 0 /\ txData.amount > 0
               /\ 100 * Abs(txData.amount - expectedAmount) > expectedAmount
            THEN "false wrong amount"
       ELSE IF txData.to = "" THEN "false no recipient"
       ELSE IF ToLowerCase(txData.to) # ToLowerCase(recipientAddress)
            THEN "false wrong recipient"
       ELSE "true"

\* POST /api/verify-tronscan: the answer to a request.
VerifyTronscanResult(txHash, expectedAmount, recipientAddress) ==
    LET txData == Ledger(txHash)
    IN IF txHash = 0 THEN "400 Transaction hash required"
       ELSE IF recipientAddress = "" THEN "400 Recipient address required"
       ELSE IF ~txData.ok THEN "400 Transaction not found on TronScan"
       ELSE IF ~txData.found THEN "false not found"
       ELSE IF ~txData.confirmed THEN "false not confirmed"
       ELSE IF /\ expectedAmount # 0 /\ txData.amount > 0
               /\ 100 * Abs(txData.amount - expectedAmount) > expectedAmount
            THEN "false wrong amount"
       ELSE IF txData.to = "" THEN "false no recipient"
       ELSE IF ToLowerCase(txData.to) # ToLowerCase(recipientAddress)
            THEN "false wrong recipient"
       ELSE "true"

\* POST /api/verify-tronscan writes nothing; verified records the requests
\* it answered with verified: true.
VerifyTronscan(txHash, expectedAmount, recipientAddress) ==
    /\ verified' =
          IF VerifyTronscanResult(txHash, expectedAmount, recipientAddress)
                = "true"
          THEN verified \cup {<<txHash, expectedAmount, recipientAddress>>}
          ELSE verified
    /\ UNCHANGED <<users, orders, invoices, cashbackHistory, referrals,
                   pendingReferrals, notifications, clock, promoVars,
                   withdrawals, commissionsPaid>>

\* POST /api/invoices/:id/verify: the answer to a request.
VerifyInvoiceResult(id) ==
    IF id \in 1..Len(invoices) THEN "200" ELSE "404 Invoice not found"

\* A variant that takes the submitted hash for the payment.
VerifyInvoicePaying(id, txHash) ==
    /\ invoices' = IF VerifyInvoiceResult(id) = "200"
                   THEN [invoices EXCEPT ![id].txHash = txHash,
                                         ![id].status = "paid"]
                   ELSE invoices
    /\ UNCHANGED <<users, orders, cashbackHistory, referrals,
                   pendingReferrals, notifications, clock, promoVars,
                   withdrawals, histVars>>

\* POST /api/invoices/:id/verify: stores the submitted hash.
VerifyInvoice(id, txHash) ==
    /\ invoices' = IF VerifyInvoiceResult(id) = "200"
                   THEN [invoices EXCEPT ![id].txHash = txHash]
                   ELSE invoices
    /\ UNCHANGED <<users, orders, cashbackHistory, referrals,
                   pendingReferrals, notifications, clock, promoVars,
                   withdrawals, histVars>>

----------------------------------------------------------------------------
(* Reviews, admin adjustments and withdrawals *)

\* const reviewBonus = 2
ReviewBonus == 200

\* POST /api/reviews: the response.
ReviewResult(t) ==
    IF users[t].exists THEN "200" ELSE "404 User not found"

\* POST /api/reviews: marks the order reviewed where the user owns it, and
\* credits the bonus.
Review(t, orderId) ==
    /\ IF ReviewResult(t) = "200"
       THEN /\ HistoryLen < MaxHistory
            /\ orders' = IF orders[orderId].exists
                             /\ orders[orderId].userId = t
                          THEN [orders EXCEPT ![orderId].reviewed = TRUE]
                          ELSE orders
            /\ users' = [users EXCEPT ![t].cashback = @ + ReviewBonus]
            /\ cashbackHistory' = [cashbackHistory EXCEPT
                                      ![t] = Append(@, ReviewBonus)]
       ELSE UNCHANGED <<users, orders, cashbackHistory>>
    /\ UNCHANGED <<invoices, referrals, pendingReferrals, notifications,
                   clock, promoVars, withdrawals, histVars>>

\* POST /api/admin/users/:id/cashback with an amount in the body: the UPDATE
\* touches no row when the id is unknown.
AdminCashback(userId, amount) ==
    /\ users' = IF users[userId].exists
                THEN [users EXCEPT ![userId].cashback = @ + amount]
                ELSE users
    /\ UNCHANGED <<orders, invoices, cashbackHistory, referrals,
                   pendingReferrals, notifications, clock, promoVars,
                   withdrawals, histVars>>

\* A variant that does not compare the amount with the balance.
WithdrawalRequestUnchecked(t, type, amount) ==
    IF ~users[t].exists THEN "404 User not found"
    ELSE IF ~users[t].wallet THEN "400 no_wallet"
    ELSE IF amount <= 0 THEN "400 invalid_amount"
    ELSE IF type \in {"cashback", "referral"} THEN "200"
    ELSE "400 invalid_type"

\* POST /api/withdrawal-request: the response.
WithdrawalRequestResult(t, type, amount) ==
    IF ~users[t].exists THEN "404 User not found"
    ELSE IF ~users[t].wallet THEN "400 no_wallet"
    ELSE IF amount <= 0 THEN "400 invalid_amount"
    ELSE IF type = "cashback"
         THEN (IF users[t].cashback < amount
               THEN "400 insufficient_balance" ELSE "200")
    ELSE IF type = "referral"
         THEN (IF users[t].referralEarnings < amount
               THEN "400 insufficient_balance" ELSE "200")
    ELSE "400 invalid_type"

\* POST /api/withdrawal-request
WithdrawalRequest(t, type, amount) ==
    /\ IF WithdrawalRequestResult(t, type, amount) = "200"
       THEN /\ Len(withdrawals) < MaxWithdrawals
            /\ withdrawals' = Append(withdrawals,
                   [userId |-> t, amount |-> amount, type |-> type,
                    status |-> "pending"])
            /\ Notify(t, "withdrawalRequested", amount)
       ELSE UNCHANGED <<withdrawals, notifications>>
    /\ UNCHANGED <<users, orders, invoices, cashbackHistory, referrals,
                   pendingReferrals, clock, promoVars, histVars>>

\* A variant that does not look at the status of the withdrawal.
WithdrawalResultAnyStatus(id) ==
    IF id \notin 1..Len(withdrawals) THEN "404 Withdrawal not found"
    ELSE "200"

\* POST /api/admin/withdrawals/:id/process and .../cancel: the response.
WithdrawalResult(id) ==
    IF id \notin 1..Len(withdrawals) THEN "404 Withdrawal not found"
    ELSE IF withdrawals[id].status # "pending"
         THEN "400 Withdrawal already processed"
    ELSE "200"

\* A variant without the floor.
NoFloor(x) ==
    x

\* Math.max(0, x)
Max0(x) ==
    IF x < 0 THEN 0 ELSE x

\* A variant in which the handler works on the row as the store held it
\* when the request reached the server.
SelectUserArrived(arrived, u) ==
    arrived[u]

\* const user = db.prepare('SELECT * FROM users WHERE id = ?').get(...): the
\* select and the update that follows run in one synchronous block, so the
\* row is the one the store holds when the handler runs, whatever the store
\* held when the request reached the server (arrived).
SelectUser(arrived, u) ==
    users[u]

\* POST /api/admin/withdrawals/:id/process, for a request that reached the
\* server when the users table was `arrived`.
ProcessWithdrawalArrived(arrived, id) ==
    /\ IF WithdrawalResult(id) = "200"
       THEN LET withdrawal == withdrawals[id]
                u == withdrawal.userId
                user == SelectUser(arrived, u)
            IN /\ withdrawals' = [withdrawals EXCEPT
                                     ![id].status = "completed"]
               /\ IF withdrawal.type = "cashback"
                  THEN /\ HistoryLen < MaxHistory
                       /\ users' = [users EXCEPT ![u].cashback =
                              Max0(user.cashback - withdrawal.amount)]
                       /\ cashbackHistory' = [cashbackHistory EXCEPT
                              ![u] = Append(@, -withdrawal.amount)]
                  ELSE /\ users' = [users EXCEPT ![u].referralEarnings =
                              Max0(user.referralEarnings - withdrawal.amount)]
                       /\ UNCHANGED cashbackHistory
               /\ Notify(u, "withdrawalCompleted", withdrawal.amount)
       ELSE UNCHANGED <<users, cashbackHistory, withdrawals, notifications>>
    /\ UNCHANGED <<orders, invoices, referrals, pendingReferrals, clock,
                   promoVars, histVars>>

\* POST /api/admin/withdrawals/:id/process
ProcessWithdrawal(id) ==
    ProcessWithdrawalArrived(users, id)

\* POST /api/admin/withdrawals/:id/cancel
CancelWithdrawal(id) ==
    /\ IF WithdrawalResult(id) = "200"
       THEN /\ withdrawals' = [withdrawals EXCEPT
                                  ![id].status = "cancelled"]
            /\ Notify(withdrawals[id].userId, "withdrawalCancelled",
                      withdrawals[id].amount)
       ELSE UNCHANGED <<withdrawals, notifications>>
    /\ UNCHANGED <<users, orders, invoices, cashbackHistory, referrals,
                   pendingReferrals, clock, promoVars, histVars>>

----------------------------------------------------------------------------
(* Promo codes *)

\* Codes as requests spell them.
PromoInputs ==
    {"save10", "SAVE10", "VIP"}

\* String.prototype.toUpperCase on the codes in play.
ToUpperCase(c) ==
    IF c = "save10" THEN "SAVE10" ELSE c

\* Time passes.
Tick ==
    /\ clock < MaxClock
    /\ clock' = clock + 1
    /\ UNCHANGED <<users, orders, invoices, cashbackHistory, referrals,
                   pendingReferrals, notifications, promoVars, withdrawals,
                   histVars>>

\* POST /api/admin/promos: the response.  A discount_percent, max_uses or
\* expires_at of 0 is one the request leaves out.
CreatePromoResult(code, discountPercent) ==
    IF discountPercent = 0 THEN "400 Code and discount are required"
    ELSE IF discountPercent < 1 \/ discountPercent > 100
         THEN "400 Discount must be between 1-100%"
    ELSE IF promoCodes[ToUpperCase(code)].exists
         THEN "400 Promo code already exists"
    ELSE "200"

\* POST /api/admin/promos
CreatePromo(code, discountPercent, maxUses, expiresAt) ==
    /\ promoCodes' =
          IF CreatePromoResult(code, discountPercent) = "200"
          THEN [promoCodes EXCEPT ![ToUpperCase(code)] =
                   [exists |-> TRUE, discountPercent |-> discountPercent,
                    maxUses |-> maxUses, currentUses |-> 0,
                    expiresAt |-> expiresAt, isActive |-> TRUE]]
          ELSE promoCodes
    /\ UNCHANGED <<users, orders, invoices, cashbackHistory, referrals,
                   pendingReferrals, notifications, clock, promoUses,
                   withdrawals, histVars>>

\* DELETE /api/admin/promos/:id: the foreign key of promo_uses keeps a code
\* that was used.
DeletePromo(code) ==
    /\ promoCodes' =
          IF \E k \in 1..Len(promoUses) : promoUses[k].promo = code
          THEN promoCodes
          ELSE [promoCodes EXCEPT ![code] = NoPromo]
    /\ UNCHANGED <<users, orders, invoices, cashbackHistory, referrals,
                   pendingReferrals, notifications, clock, promoUses,
                   withdrawals, histVars>>

\* SELECT * FROM promo_codes WHERE code = ? AND is_active = 1
ActivePromo(code) ==
    /\ promoCodes[ToUpperCase(code)].exists
    /\ promoCodes[ToUpperCase(code)].isActive

\* A variant without the usage limit.
CheckPromoResultUnlimited(code) ==
    LET promo == promoCodes[ToUpperCase(code)]
    IN IF ~ActivePromo(code) THEN "invalid not found"
       ELSE IF promo.expiresAt # 0 /\ promo.expiresAt < clock
            THEN "invalid expired"
       ELSE "valid"

\* GET /api/promo/:code: the response.
CheckPromoResult(code) ==
    LET promo == promoCodes[ToUpperCase(code)]
    IN IF ~ActivePromo(code) THEN "invalid not found"
       ELSE IF promo.expiresAt # 0 /\ promo.expiresAt < clock
            THEN "invalid expired"
       ELSE IF promo.maxUses # 0 /\ promo.currentUses >= promo.maxUses
            THEN "invalid exhausted"
       ELSE "valid"

\* GET /api/promo/:code: the discount reported with a valid code.
CheckPromoDiscount(code) ==
    promoCodes[ToUpperCase(code)].discountPercent

\* GET /api/promo/:code: the handler only reads.
CheckPromo(code) ==
    UNCHANGED <<users, orders, invoices, cashbackHistory, referrals,
                pendingReferrals, notifications, clock, promoVars,
                withdrawals, histVars>>

\* POST /api/promo/apply: the response.  user_id 0 is a request without one;
\* the foreign key of promo_uses refuses an unknown user.
ApplyPromoResult(code, userId) ==
    IF ~ActivePromo(code) THEN "failure not found"
    ELSE IF userId # 0 /\ ~users[userId].exists THEN "500"
    ELSE "success"

\* POST /api/promo/apply: the use count is incremented before the use is
\* recorded, and stays incremented when recording throws.
ApplyPromo(code, userId, orderId) ==
    /\ IF ActivePromo(code)
       THEN /\ promoCodes[ToUpperCase(code)].currentUses < MaxPromoUses
            /\ promoCodes' = [promoCodes EXCEPT
                                 ![ToUpperCase(code)].currentUses = @ + 1]
            /\ promoUses' =
                  IF ApplyPromoResult(code, userId) = "success"
                  THEN Append(promoUses,
                              [promo |-> ToUpperCase(code),
                               userId |-> userId, orderId |-> orderId])
                  ELSE promoUses
       ELSE UNCHANGED promoVars
    /\ UNCHANGED <<users, orders, invoices, cashbackHistory, referrals,
                   pendingReferrals, notifications, clock, withdrawals,
                   histVars>>

----------------------------------------------------------------------------
(* The payment flow: users, referral links, orders, invoices, confirmation *)

\* Pricing of the orders a client submits in the payment flow:
\* <<subtotal, discount, total>>; the second does not add up and the third
\* carries no base price (order.basePrice 0 or null).
PayPricings ==
    {<<20000, 3000, 17000>>, <<20000, 0, 15000>>, <<0, 0, 17000>>}

\* What an admin bills: <<amount, discount>>.
PayBillings ==
    {<<15000, 0>>, <<50000, 3000>>}

\* A client gives a new order the next free id, or an id already taken.
OrderIdGiven(id) ==
    \A x \in OrderIds : x < id => orders[x].exists

\* The admin panel bills the owner of the order (0: the order is unknown).
BilledUser(o) ==
    IF orders[o].exists THEN orders[o].userId ELSE 0

NextPay ==
    \/ \E t \in TelegramIds : GetUser(t) /\ Silent
    \/ \E t \in TelegramIds, c \in RefCodes : ApplyReferral(t, c) /\ Silent
    \/ \E t \in TelegramIds, id \in OrderIds, p \in PayPricings :
          OrderIdGiven(id) /\ CreateOrder(t, id, p[1], p[2], p[3], 0) /\ Silent
    \/ \E t \in TelegramIds, id \in OrderIds, p \in PayPricings :
          OrderIdGiven(id) /\ CreateCartOrder(t, id, p[1], p[2], p[3]) /\ Silent
    \/ \E o \in OrderIds, b \in PayBillings :
          IssueInvoice(o, BilledUser(o), b[1], b[2]) /\ Silent
    \/ \E i \in OrderIds : ConfirmPayment(i) /\ Silent

SpecPay ==
    Init /\ [][NextPay]_vars

----------------------------------------------------------------------------
(* Billing with amounts of either sign: POST /api/admin/invoices stores the
   amount of the request as it is *)

\* What an admin bills: <<amount, discount>>; the last is a negative amount.
AnyBillings ==
    {<<15000, 0>>, <<50000, 0>>, <<-10000, 0>>}

NextBilling ==
    \/ \E t \in TelegramIds : GetUser(t) /\ Silent
    \/ \E t \in TelegramIds, id \in OrderIds :
          OrderIdGiven(id) /\ CreateCartOrder(t, id, 20000, 3000, 17000)
                          /\ Silent
    \/ \E o \in OrderIds, b \in AnyBillings :
          IssueInvoice(o, BilledUser(o), b[1], b[2]) /\ Silent
    \/ \E i \in OrderIds : ConfirmPayment(i) /\ Silent

SpecBilling ==
    Init /\ [][NextBilling]_vars

----------------------------------------------------------------------------
(* The life of an order: creation, invoice, confirmation and the status an
   admin sets *)

\* Statuses an admin sets.
StatusInputs ==
    {"pending", "working", "completed", "cancelled"}

\* The user who places the orders.
StatusClients ==
    {1}

NextStatus ==
    \/ \E t \in StatusClients : GetUser(t) /\ Silent
    \/ \E t \in StatusClients, id \in OrderIds :
          /\ OrderIdGiven(id) /\ HistoryLen < MaxHistory
          /\ CreateOrder(t, id, 20000, 0, 20000, 0) /\ Silent
    \/ \E t \in StatusClients, id \in OrderIds :
          OrderIdGiven(id) /\ CreateCartOrder(t, id, 20000, 0, 20000)
                          /\ Silent
    \/ \E o \in OrderIds : IssueInvoice(o, BilledUser(o), 20000, 0) /\ Silent
    \/ \E i \in OrderIds : ConfirmPayment(i) /\ Silent
    \/ \E o \in OrderIds, st \in StatusInputs :
          UpdateOrderStatus(o, st)
             /\ Answer("updateOrderStatus", UpdateOrderStatusResult(o))

SpecStatus ==
    Init /\ [][NextStatus]_vars

----------------------------------------------------------------------------
(* The life of an invoice: issued for an order, given a hash, confirmed,
   while time passes *)

\* The user who is billed.
InvoiceClients ==
    {1}

\* Hashes a client submits for its invoice.
InvoiceHashes ==
    {1}

NextInvoice ==
    \/ \E t \in InvoiceClients : GetUser(t) /\ Silent
    \/ \E t \in InvoiceClients, id \in OrderIds :
          OrderIdGiven(id) /\ CreateCartOrder(t, id, 15000, 0, 15000)
                          /\ Silent
    \/ \E o \in OrderIds :
          IssueInvoice(o, BilledUser(o), 15000, 0)
             /\ Answer("issueInvoice", IssueInvoiceResult(o, BilledUser(o)))
    \/ \E i \in OrderIds, h \in InvoiceHashes : VerifyInvoice(i, h) /\ Silent
    \/ \E i \in OrderIds : ConfirmPayment(i) /\ Silent
    \/ Tick /\ Silent

SpecInvoice ==
    Init /\ [][NextInvoice]_vars

----------------------------------------------------------------------------
(* Referral linking: bot entry with a code, user creation, applying a code,
   and the first payment of the referred user *)

NextReferral ==
    \/ \E t \in TelegramIds : GetUser(t) /\ Silent
    \/ \E t \in TelegramIds, c \in RefCodes : BotStart(t, c) /\ Silent
    \/ \E t \in TelegramIds, c \in RefCodes :
          ApplyReferral(t, c)
             /\ Answer("applyReferral", ApplyReferralResult(t, c))
    \/ \E t \in TelegramIds, id \in OrderIds :
          OrderIdGiven(id) /\ CreateCartOrder(t, id, 20000, 0, 20000)
                          /\ Silent
    \/ \E o \in OrderIds :
          IssueInvoice(o, BilledUser(o), 20000, 0) /\ Silent
    \/ \E i \in OrderIds : ConfirmPayment(i) /\ Silent

SpecReferral ==
    Init /\ [][NextReferral]_vars

----------------------------------------------------------------------------
(* Issuing an invoice for any user: the owner of the order, a user that does
   not exist, or none *)

\* The user_id of the request: 0 when it is left out; user 2 never opens the
\* app here.
IssueUsers ==
    {0, 1, 2}

NextIssue ==
    \/ \E t \in InvoiceClients : GetUser(t) /\ Silent
    \/ \E t \in InvoiceClients, id \in OrderIds :
          OrderIdGiven(id) /\ CreateCartOrder(t, id, 15000, 0, 15000)
                          /\ Silent
    \/ \E o \in OrderIds, u \in IssueUsers :
          IssueInvoice(o, u, 15000, 0)
             /\ Answer("issueInvoice", IssueInvoiceResult(o, u))
    \/ \E i \in OrderIds : ConfirmPayment(i) /\ Silent
    \/ Tick /\ Silent

SpecIssue ==
    Init /\ [][NextIssue]_vars

----------------------------------------------------------------------------
(* Paying an invoice: hash submission, verification, confirmation *)

\* Requests to the verifier: expected amounts and recipient addresses.
GateAmounts ==
    {0, 15000}

GateAddresses ==
    {"", "TAXtuQ"}

\* Hashes a client submits for its invoice.
GateHashes ==
    {1, 2}

NextGate ==
    \/ \E t \in TelegramIds : GetUser(t) /\ Silent
    \/ \E t \in TelegramIds, id \in OrderIds :
          OrderIdGiven(id) /\ CreateCartOrder(t, id, 15000, 0, 15000)
                          /\ Silent
    \/ \E o \in OrderIds :
          IssueInvoice(o, BilledUser(o), 15000, 0) /\ Silent
    \/ \E i \in OrderIds, h \in GateHashes : VerifyInvoice(i, h) /\ Silent
    \/ \E h \in GateHashes, e \in GateAmounts, a \in GateAddresses :
          VerifyTronscan(h, e, a) /\ Silent
    \/ \E i \in OrderIds : ConfirmPayment(i) /\ Silent

SpecGate ==
    Init /\ [][NextGate]_vars

----------------------------------------------------------------------------
(* The verifier alone: every request over the hashes, expected amounts and
   recipient addresses in play, each kept with its answer *)

VerifierAddresses ==
    {"", "TAXtuQ", "TOther"}

\* The request and its answer.
AnswerVerify(h, e, a) ==
    last' = [op |-> "verifyTronscan",
             status |-> VerifyTronscanResult(h, e, a),
             txHash |-> h, expectedAmount |-> e, recipientAddress |-> a]

NextVerifier ==
    \E h \in TxHashes, e \in GateAmounts, a \in VerifierAddresses :
        VerifyTronscan(h, e, a) /\ AnswerVerify(h, e, a)

SpecVerifier ==
    Init /\ [][NextVerifier]_vars

----------------------------------------------------------------------------
(* The balances: everything that credits or debits cashback and referral
   earnings *)

\* Cashback a client asks to spend on an order, amounts an admin adjusts a
\* balance by, and amounts a user asks to withdraw.
LedgerCashbackUsed ==
    {0, 500}

LedgerAdjustments ==
    {1000, -500}

LedgerWithdrawals ==
    {0, 1000}

WithdrawalTypes ==
    {"cashback", "referral", "bonus"}

\* In this flow user 1 is the client who orders, reviews and is adjusted, and
\* user 2 the one who referred it.
LedgerClients ==
    {1}

LedgerReferrers ==
    {2}

NextLedger ==
    \/ \E t \in TelegramIds : GetUser(t) /\ Silent
    \/ \E t \in TelegramIds : UpdateUser(t, TRUE) /\ Silent
    \/ \E t \in LedgerClients, c \in LedgerReferrers :
          ApplyReferral(t, c) /\ Silent
    \/ \E t \in LedgerClients, id \in OrderIds, cu \in LedgerCashbackUsed :
          /\ OrderIdGiven(id) /\ HistoryLen < MaxHistory
          /\ CreateOrder(t, id, 20000, 0, 20000, cu) /\ Silent
    \/ \E t \in LedgerClients, o \in OrderIds : Review(t, o) /\ Silent
    \/ \E o \in OrderIds :
          IssueInvoice(o, BilledUser(o), 20000, 0) /\ Silent
    \/ \E i \in OrderIds : ConfirmPayment(i) /\ Silent
    \/ \E u \in LedgerClients, a \in LedgerAdjustments :
          /\ Abs(users[u].cashback + a) <= MaxBalance
          /\ AdminCashback(u, a) /\ Silent
    \/ \E t \in TelegramIds, ty \in WithdrawalTypes,
          a \in LedgerWithdrawals : WithdrawalRequest(t, ty, a) /\ Silent
    \/ \E w \in 1..MaxWithdrawals : ProcessWithdrawal(w) /\ Silent
    \/ \E w \in 1..MaxWithdrawals : CancelWithdrawal(w) /\ Silent

SpecLedger ==
    Init /\ [][NextLedger]_vars

----------------------------------------------------------------------------
(* Spending cashback: a referred client who places legacy and cart orders,
   with or without cashback, and pays their invoices *)

NextSpend ==
    \/ \E t \in TelegramIds : GetUser(t) /\ Silent
    \/ \E t \in LedgerClients, c \in LedgerReferrers :
          ApplyReferral(t, c) /\ Silent
    \/ \E t \in LedgerClients, id \in OrderIds, cu \in LedgerCashbackUsed :
          /\ OrderIdGiven(id) /\ HistoryLen < MaxHistory
          /\ CreateOrder(t, id, 20000, 0, 20000, cu) /\ Silent
    \/ \E t \in LedgerClients, id \in OrderIds :
          OrderIdGiven(id) /\ CreateCartOrder(t, id, 20000, 0, 20000)
                          /\ Silent
    \/ \E o \in OrderIds :
          IssueInvoice(o, BilledUser(o), 20000, 0) /\ Silent
    \/ \E i \in OrderIds : ConfirmPayment(i) /\ Silent

SpecSpend ==
    Init /\ [][NextSpend]_vars

----------------------------------------------------------------------------
(* Withdrawals: a client who earns cashback on a cart order and spends some
   on a later order, the user who referred it and earns the commission, and
   their withdrawal requests *)

\* Amounts a user asks to withdraw: none, one the balances cover, one above
\* them.
WithdrawAmounts ==
    {0, 1000, 6000}

\* The client's first order comes from the cart; its second one is a legacy
\* order paid in part with cashback.
CartOrderIds ==
    {1}

SpendOrderIds ==
    {2}

SpendCashbackUsed ==
    {500}

NextWithdraw ==
    \/ \E t \in TelegramIds : GetUser(t) /\ Silent
    \/ \E t \in TelegramIds : UpdateUser(t, TRUE) /\ Silent
    \/ \E t \in LedgerClients, c \in LedgerReferrers :
          ApplyReferral(t, c) /\ Silent
    \/ \E t \in LedgerClients, id \in SpendOrderIds,
          cu \in SpendCashbackUsed :
          /\ OrderIdGiven(id) /\ HistoryLen < MaxHistory
          /\ CreateOrder(t, id, 20000, 0, 20000, cu) /\ Silent
    \/ \E t \in LedgerClients, id \in CartOrderIds :
          OrderIdGiven(id) /\ CreateCartOrder(t, id, 20000, 0, 20000)
                          /\ Silent
    \/ \E o \in OrderIds :
          IssueInvoice(o, BilledUser(o), 20000, 0) /\ Silent
    \/ \E i \in OrderIds : ConfirmPayment(i) /\ Silent
    \/ \E t \in TelegramIds, ty \in WithdrawalTypes, a \in WithdrawAmounts :
          WithdrawalRequest(t, ty, a)
             /\ Answer("withdrawalRequest", WithdrawalRequestResult(t, ty, a))
    \/ \E w \in 1..MaxWithdrawals :
          ProcessWithdrawal(w)
             /\ Answer("processWithdrawal", WithdrawalResult(w))
    \/ \E w \in 1..MaxWithdrawals :
          CancelWithdrawal(w)
             /\ Answer("cancelWithdrawal", WithdrawalResult(w))

SpecWithdraw ==
    Init /\ [][NextWithdraw]_vars

----------------------------------------------------------------------------
(* Requests in flight: a withdrawal whose processing request has reached the
   server while the invoices of the same user are being confirmed *)

\* The processing request reaches the server (routing, body parsing): the
\* handler has not run yet.
ArriveProcess(w) ==
    /\ last.status # "arrived"
    /\ last' = [op |-> "processWithdrawal", status |-> "arrived", id |-> w,
                arrived |-> users]
    /\ UNCHANGED <<users, orders, invoices, cashbackHistory, referrals,
                   pendingReferrals, notifications, clock, withdrawals,
                   promoVars, histVars>>

\* The handler of the request in flight runs, start to end.
ServeProcess ==
    /\ last.status = "arrived"
    /\ ProcessWithdrawalArrived(last.arrived, last.id)
    /\ last' = [last EXCEPT !.status = WithdrawalResult(last.id)]

RaceAmounts ==
    {1000}

NextRace ==
    \/ \E t \in InvoiceClients : GetUser(t) /\ Silent
    \/ \E t \in InvoiceClients : UpdateUser(t, TRUE) /\ Silent
    \/ \E t \in InvoiceClients, id \in OrderIds :
          OrderIdGiven(id) /\ CreateCartOrder(t, id, 20000, 0, 20000)
                          /\ Silent
    \/ \E o \in OrderIds :
          IssueInvoice(o, BilledUser(o), 20000, 0) /\ Silent
    \/ \E i \in OrderIds : ConfirmPayment(i) /\ Silent
    \/ \E t \in InvoiceClients, a \in RaceAmounts :
          WithdrawalRequest(t, "cashback", a) /\ Silent
    \/ \E w \in 1..MaxWithdrawals : ArriveProcess(w)
    \/ ServeProcess

SpecRace ==
    Init /\ [][NextRace]_vars

----------------------------------------------------------------------------
(* Order identifiers: two clients who send legacy and cart orders under ids
   of their choosing, taken or not *)

\* order.cashbackUsed of the legacy orders: none, or 5.00.
CreateCashbackUsed ==
    {0, 500}

NextCreate ==
    \/ \E t \in TelegramIds : GetUser(t) /\ Silent
    \/ \E t \in TelegramIds, id \in OrderIds, cu \in CreateCashbackUsed :
          /\ HistoryLen < MaxHistory
          /\ CreateOrder(t, id, 20000, 0, 20000, cu)
          /\ Answer("createOrder", CreateOrderResult(t, id))
    \/ \E t \in TelegramIds, id \in OrderIds :
          /\ CreateCartOrder(t, id, 20000, 0, 20000)
          /\ Answer("createCartOrder", CreateOrderResult(t, id))

SpecCreate ==
    Init /\ [][NextCreate]_vars

----------------------------------------------------------------------------
(* Push notifications: the handlers that send one, with a send that goes
   through or fails *)

\* Statuses an admin sets.
NotifyStatuses ==
    {"completed"}

NextNotify ==
    \/ \E t \in StatusClients : GetUser(t) /\ Silent
    \/ \E t \in StatusClients, id \in SpendOrderIds, s \in PushOutcomes :
          /\ OrderIdGiven(id)
          /\ CreateOrder(t, id, 20000, 0, 20000, 0)
          /\ AnswerSend("createOrder", CreateOrderResult(t, id), s)
    \/ \E t \in StatusClients, id \in CartOrderIds, s \in PushOutcomes :
          /\ OrderIdGiven(id)
          /\ CreateCartOrder(t, id, 20000, 0, 20000)
          /\ AnswerSend("createCartOrder", CreateOrderResult(t, id), s)
    \/ \E o \in OrderIds, s \in PushOutcomes :
          /\ IssueInvoice(o, BilledUser(o), 20000, 0)
          /\ AnswerSend("issueInvoice",
                        IssueInvoiceResult(o, BilledUser(o)), s)
    \/ \E i \in OrderIds, s \in PushOutcomes :
          ConfirmPayment(i)
             /\ AnswerSend("confirmPayment", ConfirmPaymentResult(i), s)
    \/ \E o \in OrderIds, st \in NotifyStatuses, s \in PushOutcomes :
          UpdateOrderStatus(o, st)
             /\ AnswerSend("updateOrderStatus", UpdateOrderStatusResult(o), s)

SpecNotify ==
    Init /\ [][NextNotify]_vars

----------------------------------------------------------------------------
(* Promo codes: creation, validation, redemption *)

\* Discounts, limits and expiry times of the codes an admin creates, and the
\* users a redemption names.
PromoDiscounts ==
    {0, 10, 150}

PromoLimits ==
    {0, 1}

PromoExpiries ==
    {0, 2}

PromoUsers ==
    {1, 2}

NextPromo ==
    \/ \E t \in LedgerClients : GetUser(t) /\ Silent
    \/ Tick /\ Silent
    \/ \E c \in PromoInputs, d \in PromoDiscounts, m \in PromoLimits,
          e \in PromoExpiries :
          CreatePromo(c, d, m, e) /\ Silent
    \/ \E c \in PromoNames : DeletePromo(c) /\ Silent
    \/ \E c \in PromoInputs :
          CheckPromo(c) /\ Answer("checkPromo", CheckPromoResult(c))
    \/ \E c \in PromoInputs, u \in PromoUsers :
          ApplyPromo(c, u, 1) /\ Silent

SpecPromo ==
    Init /\ [][NextPromo]_vars

----------------------------------------------------------------------------
(* Claims about the payment flow *)

\* The threshold function of the specification (section 4.3), in cents.
TierOf(spent) ==
    IF spent >= 10000 * 100 THEN "platinum"
    ELSE IF spent >= 1000 * 100 THEN "gold"
    ELSE IF spent >= 500 * 100 THEN "silver"
    ELSE IF spent >= 100 * 100 THEN "bronze"
    ELSE "none"

PaidInvoices ==
    {i \in 1..Len(invoices) : invoices[i].status = "paid"}

\* C1: Confirm Payment on an invoice that is already paid is a no-op: the
\* users' cashback, totalSpent, level and referralEarnings, the cashback
\* history, the Referral rows and the order status are unchanged by it.
C1_ReconfirmIsNoOp ==
    [][\A i \in 1..Len(invoices) :
          (invoices[i].status = "paid" /\ ConfirmPayment(i))
             => UNCHANGED <<users, cashbackHistory, referrals, orders>>]_vars

\* C2: a referrer is credited the commission for a given referred user at
\* most once.
C2_CommissionAtMostOnce ==
    \A u \in TelegramIds : commissionsPaid[u] <= 1

\* C6: every persisted order satisfies total = subtotal - discountAmount and
\* discountAmount >= 0.
C6_OrderTotalsAddUp ==
    \A o \in OrderIds :
        orders[o].exists =>
            /\ orders[o].total = orders[o].subtotal - orders[o].discountAmount
            /\ orders[o].discountAmount >= 0

\* C7: a user's level never downgrades: in every step, every user's level is
\* at least the level it had before (none < bronze < silver < gold <
\* platinum).
C7_LevelNeverDowngrades ==
    [][\A u \in TelegramIds :
          LevelRank(users'[u].level) >= LevelRank(users[u].level)]_vars

\* C8: in every reachable state each user's stored level is the threshold
\* level of that user's totalSpent.
C8_LevelIsThresholdOfSpent ==
    \A u \in TelegramIds : users[u].level = TierOf(users[u].totalSpent)

CommissionBase(order) ==
    IF order.subtotal # 0 THEN order.subtotal
    ELSE IF order.basePrice # 0 THEN order.basePrice
    ELSE order.total

C11_CommissionOnFirstConfirmation ==
    [][\A i \in 1..Len(invoices) :
          LET u == invoices[i].userId
          IN (/\ ConfirmPayment(i)
              /\ invoices[i].status # "paid"
              /\ users[u].referredBy # 0
              /\ \A j \in PaidInvoices : invoices[j].userId # u)
                => users'[users[u].referredBy].referralEarnings
                      > users[users[u].referredBy].referralEarnings]_vars

\* C28: totalSpent is a non-decreasing accumulator changed only by payment
\* confirmation: no step decreases any user's totalSpent, and a step that
\* changes it is a Confirm Payment.
C28_TotalSpentNeverDecreases ==
    [][\A u \in TelegramIds :
          /\ users'[u].totalSpent >= users[u].totalSpent
          /\ users'[u].totalSpent # users[u].totalSpent
                => \E i \in OrderIds : ConfirmPayment(i)]_vars

----------------------------------------------------------------------------
(* Claims about the payment gate *)

\* C5: an invoice becomes paid only after a transaction hash was submitted
\* for it and the verifier answered verified: true for that hash against the
\* invoice's amount and payment address.
C5_PaidOnlyAfterVerification ==
    [][\A i \in 1..Len(invoices) :
          (invoices[i].status # "paid" /\ invoices'[i].status = "paid")
             => /\ invoices[i].txHash # 0
                /\ <<invoices[i].txHash, invoices[i].finalAmount,
                      invoices[i].paymentAddress>> \in verified]_vars

----------------------------------------------------------------------------
(* Claims about the balances *)

\* C3: in every reachable state every user's cashback and referralEarnings
\* are non-negative, whatever orders (with any cashbackUsed), reviews,
\* confirmations, admin adjustments and withdrawals have run.
C3_BalancesNonNegative ==
    \A u \in TelegramIds :
        users[u].cashback >= 0 /\ users[u].referralEarnings >= 0

\* C12: creating an order with cashbackUsed = c > 0 debits exactly c from the
\* owner's cashback balance and appends exactly one history entry of -c for
\* that user; with cashbackUsed = 0 neither the balance nor the history
\* changes.  Nobody else's balance or history changes either way.
C12_CashbackUsedIsDebited ==
    [][\A t \in TelegramIds, id \in OrderIds, c \in LedgerCashbackUsed :
          (CreateOrderResult(t, id) = "200"
             /\ CreateOrder(t, id, 20000, 0, 20000, c))
          => /\ users'[t].cashback = users[t].cashback - c
             /\ cashbackHistory'[t] =
                   IF c > 0 THEN Append(cashbackHistory[t], -c)
                   ELSE cashbackHistory[t]
             /\ \A u \in TelegramIds \ {t} :
                   /\ users'[u] = users[u]
                   /\ cashbackHistory'[u] = cashbackHistory[u]]_vars

\* C12 witness: a user who earned 10.00 of cashback spent 5.00 of it on a
\* second order: balance 5.00, history 10.00 then -5.00.
C12_Witness ==
    \E t \in TelegramIds, o \in OrderIds :
        /\ orders[o].exists /\ orders[o].userId = t
        /\ orders[o].cashbackUsed = 500 /\ orders[o].status = "pending"
        /\ users[t].cashback = 500
        /\ cashbackHistory[t] = <<1000, -500>>

\* C13: order creation (legacy or cart) grants no rewards: in a step that
\* stores a new order every user's totalSpent, level and referralEarnings and
\* every Referral row are unchanged, no cashback balance grows and the
\* history gains no positive entry.
C13_OrderCreationGrantsNothing ==
    [][(\E o \in OrderIds : ~orders[o].exists /\ orders'[o].exists)
          => /\ referrals' = referrals
             /\ \A u \in TelegramIds :
                   /\ users'[u].totalSpent = users[u].totalSpent
                   /\ users'[u].level = users[u].level
                   /\ users'[u].referralEarnings = users[u].referralEarnings
                   /\ users'[u].cashback <= users[u].cashback
                   /\ \/ cashbackHistory'[u] = cashbackHistory[u]
                      \/ /\ Len(cashbackHistory'[u])
                               = Len(cashbackHistory[u]) + 1
                         /\ cashbackHistory'[u] =
                               Append(cashbackHistory[u],
                                      cashbackHistory'[u][
                                          Len(cashbackHistory'[u])])
                         /\ cashbackHistory'[u][
                                Len(cashbackHistory'[u])] < 0]_vars

\* C13 witness: a referred user who paid once and then created a second
\* order (legacy or cart): its totalSpent, cashback and the referrer's
\* earnings are those of the one confirmation.
C13_Witness ==
    \E t \in TelegramIds :
        /\ users[t].referredBy # 0
        /\ Cardinality(OrdersOf(t)) = 2
        /\ \E o \in OrdersOf(t) : orders[o].status = "awaiting_manager"
        /\ users[t].totalSpent = 20000
        /\ users[t].cashback = 1000
        /\ users[users[t].referredBy].referralEarnings = 5000

\* C17: a withdrawal moves from pending to completed or to cancelled and
\* then never changes: Process and Cancel on a completed or cancelled
\* withdrawal are rejected and leave the withdrawals, the users' balances and
\* the cashback history as they were.
C17_WithdrawalStatusIsTerminal ==
    [][\A w \in 1..Len(withdrawals) :
          /\ Len(withdrawals') >= Len(withdrawals)
          /\ withdrawals'[w].status # withdrawals[w].status
                => /\ withdrawals[w].status = "pending"
                   /\ withdrawals'[w].status \in {"completed", "cancelled"}
          /\ withdrawals[w].status # "pending"
                => /\ withdrawals'[w] = withdrawals[w]
                   /\ WithdrawalResult(w) = "400 Withdrawal already processed"
                   /\ (ProcessWithdrawal(w) \/ CancelWithdrawal(w))
                         => UNCHANGED <<users, cashbackHistory,
                                        withdrawals>>]_vars

\* C17 witness: a cashback withdrawal of 10.00 was completed, debiting the
\* balance once, and a second Process or Cancel on it was refused.
C17_Witness ==
    \E w \in 1..Len(withdrawals) :
        /\ withdrawals[w].status = "completed"
        /\ withdrawals[w].type = "cashback"
        /\ cashbackHistory[withdrawals[w].userId] = <<1000, -1000>>
        /\ users[withdrawals[w].userId].cashback = 0
        /\ last.op \in {"processWithdrawal", "cancelWithdrawal"}
        /\ last.status = "400 Withdrawal already processed"

\* C18: a withdrawal debits only at completion: a request and a
\* cancellation leave every user's cashback and referralEarnings unchanged,
\* and processing sets the owner's balance of the requested type to the
\* larger of 0 and balance - amount and leaves the other balance, and the
\* other users, unchanged.
C18_DebitOnlyAtCompletion ==
    [][/\ \A t \in TelegramIds, ty \in WithdrawalTypes,
             a \in WithdrawAmounts :
             WithdrawalRequest(t, ty, a) => users' = users
       /\ \A w \in 1..Len(withdrawals) :
             /\ CancelWithdrawal(w) => users' = users
             /\ (withdrawals[w].status = "pending"
                   /\ withdrawals'[w].status = "completed")
                => LET u == withdrawals[w].userId
                       amount == withdrawals[w].amount
                       left(balance) == IF balance - amount > 0
                                        THEN balance - amount ELSE 0
                   IN /\ \A v \in TelegramIds \ {u} : users'[v] = users[v]
                      /\ IF withdrawals[w].type = "cashback"
                         THEN /\ users'[u].cashback = left(users[u].cashback)
                              /\ users'[u].referralEarnings
                                    = users[u].referralEarnings
                         ELSE /\ users'[u].referralEarnings
                                    = left(users[u].referralEarnings)
                              /\ users'[u].cashback = users[u].cashback
      ]_vars

\* C18 witness: a user with 10.00 of cashback asked to withdraw it, then
\* spent 5.00 of it on an order; processing the withdrawal left 0, not -5.00.
C18_Witness ==
    \E w \in 1..Len(withdrawals) :
        /\ withdrawals[w].status = "completed"
        /\ withdrawals[w].type = "cashback"
        /\ withdrawals[w].amount = 1000
        /\ cashbackHistory[withdrawals[w].userId] = <<1000, -500, -1000>>
        /\ users[withdrawals[w].userId].cashback = 0

\* The balance a withdrawal of the given type draws on.
BalanceOfType(t, type) ==
    IF type = "cashback" THEN users[t].cashback ELSE users[t].referralEarnings

\* The reasons Request Withdrawal rejects with.
WithdrawalRejections ==
    {"400 no_wallet", "400 invalid_amount", "400 invalid_type",
     "400 insufficient_balance"}

\* C19: Request Withdrawal by a known user is rejected with a specific reason
\* and creates no withdrawal record when the user has no payout wallet, the
\* amount is missing (0) or <= 0, the type is neither cashback nor referral,
\* or the amount exceeds the user's balance of the requested type; every
\* reason given is a true one; and a record is created only for a user with
\* a wallet, a positive amount, a valid type and amount <= that balance.
C19_RequestRejectedWithReason ==
    [][/\ \A t \in TelegramIds, ty \in WithdrawalTypes,
             a \in WithdrawAmounts :
             LET answer == WithdrawalRequestResult(t, ty, a)
                 noWallet == ~users[t].wallet
                 badAmount == a <= 0
                 badType == ty \notin {"cashback", "referral"}
                 tooMuch == ~badType /\ a > BalanceOfType(t, ty)
             IN users[t].exists =>
                /\ (noWallet \/ badAmount \/ badType \/ tooMuch)
                      => /\ answer \in WithdrawalRejections
                         /\ WithdrawalRequest(t, ty, a)
                               => UNCHANGED <<withdrawals, users,
                                              notifications>>
                /\ answer = "400 no_wallet" => noWallet
                /\ answer = "400 invalid_amount" => badAmount
                /\ answer = "400 invalid_type" => badType
                /\ answer = "400 insufficient_balance" => tooMuch
                /\ answer = "200"
                      => ~(noWallet \/ badAmount \/ badType \/ tooMuch)
       /\ (last'.op = "withdrawalRequest" /\ last'.status # "200")
             => withdrawals' = withdrawals
       /\ Len(withdrawals') > Len(withdrawals)
             => LET r == withdrawals'[Len(withdrawals')]
                IN /\ Len(withdrawals') = Len(withdrawals) + 1
                   /\ users[r.userId].wallet
                   /\ r.amount > 0
                   /\ r.type \in {"cashback", "referral"}
                   /\ r.amount <= BalanceOfType(r.userId, r.type)
                   /\ r.status = "pending"
                   /\ last'.op = "withdrawalRequest"
                   /\ last'.status = "200"
      ]_vars

\* C19 witness: a user with a wallet and 10.00 of cashback has one pending
\* withdrawal of 10.00, and the last request, for more than any balance, was
\* answered insufficient_balance and left no record.
C19_Witness ==
    /\ Len(withdrawals) = 1
    /\ withdrawals[1].status = "pending"
    /\ withdrawals[1].amount = 1000
    /\ users[withdrawals[1].userId].cashback = 1000
    /\ users[withdrawals[1].userId].wallet
    /\ last.op = "withdrawalRequest"
    /\ last.status = "400 insufficient_balance"

\* C26: the review bonus is granted once per order: a Submit Review call for
\* an order that is already reviewed adds nothing to the caller's cashback and
\* no entry to the cashback history.
C26_ReviewBonusOncePerOrder ==
    [][\A t \in TelegramIds, o \in OrderIds :
          (orders[o].reviewed /\ Review(t, o))
             => /\ users'[t].cashback = users[t].cashback
                /\ cashbackHistory' = cashbackHistory]_vars

\* C27: the cashback balance is the running total of the cashback history:
\* each user's cashback equals the sum of the amounts of that user's
\* cashback-history entries.
C27_CashbackIsSumOfHistory ==
    \A u \in TelegramIds :
        users[u].cashback = SumSeq(cashbackHistory[u])

----------------------------------------------------------------------------
(* Claims about the status of an order *)

\* The place of a status on the path pending/awaiting_manager ->
\* awaiting_payment -> working -> completed; cancelled is an end as well.
StatusRank(status) ==
    CASE status \in {"pending", "awaiting_manager"} -> 0
      [] status = "awaiting_payment" -> 1
      [] status = "working" -> 2
      [] status \in {"completed", "cancelled"} -> 3
      [] OTHER -> 0

\* C20: the status of an order only moves forward: an order that is
\* completed or cancelled never changes status again, and no order moves
\* back to an earlier status.
C20_StatusOnlyMovesForward ==
    [][\A o \in OrderIds :
          orders[o].exists
             => /\ orders[o].status \in {"completed", "cancelled"}
                      => orders'[o].status = orders[o].status
                /\ StatusRank(orders'[o].status)
                      >= StatusRank(orders[o].status)]_vars

----------------------------------------------------------------------------
(* Claims about invoices *)

\* C21: an invoice is immutable once paid except for its transaction hash:
\* its status stays paid and its paidAt, amount, discountAmount and
\* finalAmount never change under any later operation.
C21_PaidInvoiceIsImmutable ==
    [][\A k \in 1..Len(invoices) :
          invoices[k].status = "paid"
             => /\ Len(invoices') >= k
                /\ invoices'[k].status = "paid"
                /\ invoices'[k].paidAt = invoices[k].paidAt
                /\ invoices'[k].amount = invoices[k].amount
                /\ invoices'[k].discountAmount = invoices[k].discountAmount
                /\ invoices'[k].finalAmount = invoices[k].finalAmount]_vars

\* The invoices that reference an order.
InvoicesOf(o) ==
    {k \in 1..Len(invoices) : invoices[k].orderId = o}

\* C22: invoices and orders are one-to-one: at most one invoice references
\* any given order, and Issue Invoice for an order that already has an
\* invoice fails and changes neither the invoices nor the orders.
C22_OneInvoicePerOrder ==
    [][/\ \A o \in OrderIds :
             Cardinality({k \in 1..Len(invoices') :
                             invoices'[k].orderId = o}) <= 1
       /\ \A o \in OrderIds, u \in TelegramIds :
             InvoicesOf(o) # {}
                => /\ IssueInvoiceResult(o, u) = "500"
                   /\ IssueInvoice(o, u, 15000, 0)
                         => UNCHANGED <<invoices, orders>>]_vars

\* C22 witness: both orders have their invoice, the first one paid, and the
\* last Issue Invoice call, made after both were issued, failed.
C22_Witness ==
    /\ \A o \in OrderIds : Cardinality(InvoicesOf(o)) = 1
    /\ invoices[1].status = "paid"
    /\ orders[invoices[1].orderId].status = "working"
    /\ last = [op |-> "issueInvoice", status |-> "500"]

----------------------------------------------------------------------------
(* Claims about referral linking *)

\* C23: referral linking is set-once and never to self: no user's referredBy
\* refers to that same user, and once a user's referredBy is set no later
\* operation changes it.
C23_ReferredBySetOnceNeverSelf ==
    /\ \A t \in TelegramIds : users[t].referredBy # t
    /\ [][\A t \in TelegramIds :
             /\ users'[t].referredBy # t
             /\ users[t].referredBy # 0
                   => users'[t].referredBy = users[t].referredBy]_vars

\* C23 witness: a referred user whose referrer was paid the commission and
\* whose last attempt to apply a code was answered Already referred.
C23_Witness ==
    \E t \in TelegramIds :
        /\ users[t].referredBy # 0
        /\ commissionsPaid[t] > 0
        /\ last = [op |-> "applyReferral", status |-> "400 Already referred"]

\* The reasons Apply Referral Code rejects a code with.
ReferralRejections ==
    {"400 Invalid code", "400 Already referred", "400 Cannot refer yourself"}

\* C24: Apply Referral Code with an unknown code, with the caller's own code,
\* or by a caller who already has a referrer is rejected with a specific
\* reason, which is a true one, and leaves every user's referredBy and the
\* Referral rows unchanged.
C24_ApplyReferralRejected ==
    [][\A t \in TelegramIds, c \in RefCodes :
          LET answer == ApplyReferralResult(t, c)
              unknown == c \notin TelegramIds \/ ~users[c].exists
              own == users[t].exists /\ c = t
              already == users[t].exists /\ users[t].referredBy # 0
          IN /\ (unknown \/ own \/ already)
                   => /\ answer \in ReferralRejections
                      /\ ApplyReferral(t, c)
                            => /\ referrals' = referrals
                               /\ \A u \in TelegramIds :
                                     users'[u].referredBy = users[u].referredBy
             /\ answer = "400 Invalid code" => unknown
             /\ answer = "400 Already referred" => already
             /\ answer = "400 Cannot refer yourself" => own
             /\ answer = "200" => ~(unknown \/ own \/ already)]_vars

\* C24 witness: a user presented its own code; nobody is linked and there is
\* no Referral row.
C24_Witness ==
    /\ last = [op |-> "applyReferral", status |-> "400 Cannot refer yourself"]
    /\ \E t \in TelegramIds : users[t].exists
    /\ \A t \in TelegramIds : users[t].referredBy = 0
    /\ referrals = <<>>

----------------------------------------------------------------------------
(* Claims about push notifications *)

\* C30: notification delivery is fire-and-forget: for Create Order, Issue
\* Invoice, Confirm Payment and Update Status, whether the send succeeds or
\* fails, the step is the one the handler makes on the orders, invoices and
\* balances, and the response is the one the handler gives.
C30_SendOutcomeChangesNothing ==
    [][last' # last
          => /\ last'.outcome \in PushOutcomes
             /\ \/ \E t \in StatusClients, id \in SpendOrderIds :
                      /\ CreateOrder(t, id, 20000, 0, 20000, 0)
                      /\ last'.op = "createOrder"
                      /\ last'.status = CreateOrderResult(t, id)
                \/ \E t \in StatusClients, id \in CartOrderIds :
                      /\ CreateCartOrder(t, id, 20000, 0, 20000)
                      /\ last'.op = "createCartOrder"
                      /\ last'.status = CreateOrderResult(t, id)
                \/ \E o \in OrderIds :
                      /\ IssueInvoice(o, BilledUser(o), 20000, 0)
                      /\ last'.op = "issueInvoice"
                      /\ last'.status = IssueInvoiceResult(o, BilledUser(o))
                \/ \E i \in OrderIds :
                      /\ ConfirmPayment(i)
                      /\ last'.op = "confirmPayment"
                      /\ last'.status = ConfirmPaymentResult(i)
                \/ \E o \in OrderIds, st \in NotifyStatuses :
                      /\ UpdateOrderStatus(o, st)
                      /\ last'.op = "updateOrderStatus"
                      /\ last'.status = UpdateOrderStatusResult(o)]_vars

\* C30 witness: the send of a payment confirmation failed; the request was
\* answered 200, the invoice is paid, the order is in work and the cashback
\* is credited.
C30_Witness ==
    /\ last = [op |-> "confirmPayment", status |-> "200",
               outcome |-> "failed"]
    /\ \E k \in 1..Len(invoices) :
          /\ invoices[k].status = "paid"
          /\ orders[invoices[k].orderId].status = "working"
          /\ users[invoices[k].userId].cashback = 1000
          /\ users[invoices[k].userId].totalSpent = 20000

\* C31: Update Status has no reward side effects: for any status it changes
\* only the status of the targeted order (and adds a notification) and
\* leaves every user, the cashback history, the Referral rows and every
\* invoice unchanged; for an unknown order it is rejected and changes
\* nothing.
C31_UpdateStatusOnlySetsStatus ==
    [][\A o \in OrderIds, st \in StatusInputs :
          UpdateOrderStatus(o, st)
             => /\ users' = users
                /\ cashbackHistory' = cashbackHistory
                /\ invoices' = invoices
                /\ referrals' = referrals
                /\ \A x \in OrderIds \ {o} : orders'[x] = orders[x]
                /\ IF orders[o].exists
                   THEN /\ orders'[o] = [orders[o] EXCEPT !.status = st]
                        /\ UpdateOrderStatusResult(o) = "200"
                   ELSE /\ orders'[o] = orders[o]
                        /\ notifications' = notifications
                        /\ UpdateOrderStatusResult(o) = "404 Order not found"
      ]_vars

\* C31 witness: an order whose invoice was never confirmed was set to
\* completed by an admin: its owner was notified and has earned nothing.
C31_Witness ==
    \E o \in OrderIds :
        /\ orders[o].exists /\ orders[o].status = "completed"
        /\ \E k \in 1..Len(invoices) :
              invoices[k].orderId = o /\ invoices[k].status = "awaiting_payment"
        /\ <<orders[o].userId, "completed", o>> \in notifications
        /\ users[orders[o].userId].cashback = 0
        /\ users[orders[o].userId].totalSpent = 0
        /\ last = [op |-> "updateOrderStatus", status |-> "200"]

\* C32: Issue Invoice for an unknown user is a validation error that mutates
\* no state: when the user of the request does not exist the call reports an
\* error, no invoice is created and the status of the order is unchanged.
C32_UnknownUserIssuesNothing ==
    [][\A o \in OrderIds, u \in IssueUsers :
          ((u \notin TelegramIds \/ ~users[u].exists)
              /\ IssueInvoice(o, u, 15000, 0))
             => /\ IssueInvoiceResult(o, u) # "200"
                /\ invoices' = invoices
                /\ orders' = orders]_vars

C34_CashbackOnPaidAmount ==
    [][\A i \in 1..Len(invoices) :
          (/\ invoices[i].status # "paid" /\ invoices'[i].status = "paid"
           /\ invoices[i].userId # 0
           /\ invoices[i].finalAmount < invoices[i].amount)
          => users'[invoices[i].userId].cashback
                = users[invoices[i].userId].cashback
                     + CashbackAmount(invoices[i].finalAmount)]_vars

\* C35: the amount of a withdrawal that becomes completed is at most the
\* balance of its type that the user holds just before it is processed.
C35_PayoutWithinBalance ==
    [][\A w \in 1..Len(withdrawals) :
          (withdrawals[w].status = "pending"
              /\ withdrawals'[w].status = "completed")
          => LET u == withdrawals[w].userId
             IN withdrawals[w].amount
                   <= (IF withdrawals[w].type = "cashback"
                       THEN users[u].cashback
                       ELSE users[u].referralEarnings)]_vars

\* C36: whenever Submit Review credits the bonus to a user, the review names
\* an order that exists, belongs to that user and is marked reviewed by the
\* call.
C36_ReviewBonusForOwnOrder ==
    [][\A t \in TelegramIds :
          ((\E o \in OrderIds : Review(t, o))
              /\ users'[t].cashback = users[t].cashback + ReviewBonus)
          => \E o \in OrderIds :
                /\ Review(t, o)
                /\ orders[o].exists /\ orders[o].userId = t
                /\ orders'[o].reviewed]_vars

\* The Referral rows in which user u is the referred one.
RowsReferring(u) ==
    {k \in 1..Len(referrals) : referrals[k].referredId = u}

\* C37: referral links and Referral rows correspond one to one: a user has
\* referredBy = r exactly when one Referral row (referrer r, referred that
\* user) exists, and no user is the referred one of more than one row.
C37_LinkMatchesRow ==
    \A u \in TelegramIds :
        /\ Cardinality(RowsReferring(u)) <= 1
        /\ \A r \in TelegramIds :
              users[u].referredBy = r
                 <=> Cardinality({k \in RowsReferring(u) :
                                     referrals[k].referrerId = r}) = 1
        /\ users[u].referredBy = 0 => RowsReferring(u) = {}

\* C37 witness: each user was referred by the other, one through a pending
\* referral and one through Apply Referral Code, a further Apply Referral
\* Code call was refused, and there are two Referral rows.
C37_Witness ==
    /\ users[1].referredBy = 2 /\ users[2].referredBy = 1
    /\ Len(referrals) = 2
    /\ last.op = "applyReferral" /\ last.status # "200"

\* C38: creating an order, legacy or cart, under an id that an order already
\* has fails, and leaves every order, every cashback balance and the cashback
\* history as they were.
C38_CollidingIdChangesNothing ==
    [][\A t \in TelegramIds, id \in OrderIds :
          (/\ users[t].exists /\ orders[id].exists
           /\ \/ \E cu \in CreateCashbackUsed :
                    /\ CreateOrder(t, id, 20000, 0, 20000, cu)
                    /\ Answer("createOrder", CreateOrderResult(t, id))
              \/ /\ CreateCartOrder(t, id, 20000, 0, 20000)
                 /\ Answer("createCartOrder", CreateOrderResult(t, id)))
          => /\ last'.status = "500"
             /\ orders' = orders
             /\ users' = users
             /\ cashbackHistory' = cashbackHistory
             /\ notifications' = notifications]_vars

\* C38 witness: user 2 was refused a legacy order under the id of the cart
\* order of user 1, which is as user 1 created it.
C38_Witness ==
    /\ last.op = "createOrder" /\ last.status = "500"
    /\ users[2].exists
    /\ orders[1].exists /\ orders[1].userId = 1
    /\ orders[1].status = "awaiting_manager"
    /\ ~orders[2].exists

----------------------------------------------------------------------------
(* Claims about promo codes *)

\* C4: for a promo code with a maxUses limit, currentUses <= maxUses holds in
\* every reachable state.
C4_UsesWithinLimit ==
    \A c \in PromoNames :
        (promoCodes[c].exists /\ promoCodes[c].maxUses # 0)
           => promoCodes[c].currentUses <= promoCodes[c].maxUses

\* The promo_codes row a request names, after case normalization.
PromoNamed(c) ==
    promoCodes[IF c = "save10" THEN "SAVE10" ELSE c]

\* A code is usable when its row exists, is active, has not expired
\* (expiresAt unset or not yet passed) and is not exhausted (maxUses unset or
\* currentUses < maxUses).
PromoUsable(c) ==
    /\ PromoNamed(c).exists
    /\ PromoNamed(c).isActive
    /\ PromoNamed(c).expiresAt = 0 \/ PromoNamed(c).expiresAt >= clock
    /\ PromoNamed(c).maxUses = 0
          \/ PromoNamed(c).currentUses < PromoNamed(c).maxUses

\* Promo validation answers valid, with the discount of the row, exactly for
\* the usable codes, and a rejection reason for the others.
PromoValidationExact ==
    \A c \in PromoInputs :
        /\ CheckPromoResult(c) = "valid" <=> PromoUsable(c)
        /\ CheckPromoResult(c) = "valid"
              => CheckPromoDiscount(c) = PromoNamed(c).discountPercent
        /\ CheckPromoResult(c) # "valid"
              => CheckPromoResult(c) \in
                    {"invalid not found", "invalid expired",
                     "invalid exhausted"}

InvoiceStatuses(invs) ==
    [i \in 1..Len(invs) |-> invs[i].status]

\* C16: neither submitting a transaction hash nor a verification changes an
\* invoice status, an order, or a user's balances, totalSpent or level; an
\* invoice that becomes paid does so in a Confirm Payment step.
C16_VerificationIsAdvisory ==
    [][/\ \A i \in OrderIds, h \in GateHashes :
             VerifyInvoice(i, h)
                => /\ InvoiceStatuses(invoices') = InvoiceStatuses(invoices)
                   /\ orders' = orders /\ users' = users
                   /\ cashbackHistory' = cashbackHistory
       /\ \A h \in GateHashes, e \in GateAmounts, a \in GateAddresses :
             VerifyTronscan(h, e, a)
                => /\ invoices' = invoices /\ orders' = orders
                   /\ users' = users
                   /\ cashbackHistory' = cashbackHistory
       /\ \A i \in 1..Len(invoices) :
             (invoices[i].status # "paid" /\ invoices'[i].status = "paid")
                => ConfirmPayment(i)]_vars

\* C16 witness: a hash was submitted for an invoice and the verifier accepted
\* it for the invoice's amount and address, and the invoice still awaits
\* payment, its order too, and the owner has spent and earned nothing.
C16_Witness ==
    \E i \in 1..Len(invoices) :
        /\ invoices[i].txHash = 1
        /\ <<1, invoices[i].finalAmount, invoices[i].paymentAddress>>
              \in verified
        /\ invoices[i].status = "awaiting_payment"
        /\ orders[invoices[i].orderId].status = "awaiting_payment"
        /\ users[invoices[i].userId].totalSpent = 0
        /\ users[invoices[i].userId].cashback = 0

----------------------------------------------------------------------------
(* Claims about the verifier *)

\* The answer in last is the verifier's, to a request that names a hash and
\* a recipient address.
VerifierAnswered ==
    /\ last.op = "verifyTronscan"
    /\ last.txHash # 0
    /\ last.recipientAddress # ""

\* Two addresses that differ in letter case only.
SameAddress(a, b) ==
    \/ a = b
    \/ {a, b} = {"TAXtuQ", "taxtuq"}
    \/ {a, b} = {"TOther", "tother"}

\* C14: the verifier never answers verified: true for a transaction whose
\* transfer amount differs from the expected amount by more than 1% of it,
\* including when no amount can be extracted from the payload (amount 0).
C14_NoTrueOutsideTolerance ==
    (VerifierAnswered /\ last.expectedAmount # 0 /\ last.status = "true")
       => 100 * Abs(Ledger(last.txHash).amount - last.expectedAmount)
             <= last.expectedAmount

\* C15: the verifier answers verified: true only if the hash was found, the
\* transaction is confirmed and a recipient was extracted that matches the
\* expected address up to letter case; a hash that is not found, a
\* transaction not yet confirmed, a recipient that cannot be extracted and a
\* recipient that does not match are each answered verified: false with a
\* reason of their own (the amount being in order).
C15_TrueOnlyIfFoundConfirmedAndAddressed ==
    VerifierAnswered =>
        LET txData == Ledger(last.txHash)
            known == txData.ok /\ txData.found
            amountOk ==
                \/ last.expectedAmount = 0
                \/ txData.amount = 0
                \/ 100 * Abs(txData.amount - last.expectedAmount)
                      <= last.expectedAmount
        IN /\ last.status = "true"
                => /\ known /\ txData.confirmed /\ txData.to # ""
                   /\ SameAddress(txData.to, last.recipientAddress)
           /\ ~known
                => last.status \in {"400 Transaction not found on TronScan",
                                    "false not found"}
           /\ (known /\ ~txData.confirmed)
                => last.status = "false not confirmed"
           /\ (known /\ txData.confirmed /\ amountOk /\ txData.to = "")
                => last.status = "false no recipient"
           /\ (known /\ txData.confirmed /\ amountOk /\ txData.to # ""
                  /\ ~SameAddress(txData.to, last.recipientAddress))
                => last.status = "false wrong recipient"

\* C15 witness: all four refusals and an acceptance across letter case have
\* been answered; the state shown is the acceptance of hash 2, sent to
\* "taxtuq", for the address "TAXtuQ".
C15_Witness ==
    /\ VerifierAnswered
    /\ last.status = "true"
    /\ last.txHash = 2 /\ last.recipientAddress = "TAXtuQ"
    /\ Ledger(last.txHash).to = "taxtuq"
    /\ <<2, 0, "TAXtuQ">> \in verified
    /\ <<1, 15000, "TAXtuQ">> \in verified

\* C39: a redemption request for a code that validation refuses as expired or
\* as inactive leaves currentUses and the PromoUse records unchanged.
C39_RedemptionRefusesExpired ==
    [][\A c \in PromoInputs, u \in PromoUsers :
          (/\ CheckPromoResult(c) \in {"invalid not found", "invalid expired"}
           /\ ApplyPromo(c, u, 1))
          => /\ promoCodes' = promoCodes
             /\ promoUses' = promoUses]_vars

====
